---- MODULE Spec2Model ----
(***************************************************************************)
(* Game-store storefront: the price range control of FilterSidebar and the *)
(* client-side filter/sort pipeline of the Catalog page.                   *)
(*                                                                         *)
(* The repository holds two sources of the FilterSidebar component:        *)
(*   src/unnamed/part_000 (guarded, clamping handlers) and                 *)
(*   src/frontend/src/components/FilterSidebar/FilterSidebar.tsx           *)
(*   (handlers that only keep the two bounds from crossing).               *)
(* The variable sidebar says which of them the Catalog has mounted.        *)
(*                                                                         *)
(* Further parts: the Catalog's URL / search / fetch controller            *)
(* (SpecCatalog), the Profile page's loadData with its joins               *)
(* (SpecProfile), and the Home page's top-rated and most-purchased         *)
(* derivations in both of its source variants (SpecHome).                  *)
(***************************************************************************)
EXTENDS Integers, Sequences, FiniteSets, TLC

VARIABLES
  sidebar,          \* which FilterSidebar source is mounted
  range,            \* FilterSidebar: useState({min, max})
  last,             \* the last handler invocation of the sidebar and what it did
  allGames,         \* Catalog: useState<Game[]>([])
  selectedGenre,    \* Catalog: <<>> is null, <<id>> is a genre id
  selectedPlatform, \* Catalog: <<>> is null, <<id>> is a platform id
  minPrice,         \* Catalog: useState(0)
  maxPrice,         \* Catalog: useState(10000)
  sortBy,           \* Catalog: useState('newest')
  games,            \* Catalog render: const games = getFilteredGames()
  searchParams,     \* Catalog: useSearchParams(), [search, genre]; "" is absent
  searchQuery,      \* Catalog: useState(searchParams.get('search') || '')
  loading,          \* Catalog: useState(true)
  error,            \* Catalog: <<>> is null, <<message>> is an error message
  genres,           \* Catalog: useState<Genre[]>([]), the genre ids
  platforms,        \* Catalog: useState<Platform[]>([]), the platform ids
  mounted,          \* Catalog: whether the mount effects have run
  inflight,         \* Catalog: the async calls awaiting their response
  failedCalls,      \* Catalog: the API calls of the fetch that last failed
  profile,          \* Profile: its useState values and its pending requests
  home,             \* Home: its useState values, render constants and requests
  backend,          \* what the server holds for the Profile and Home requests
  client            \* ApiService: the call in progress, its fetches, its outcome

sidebarVars == <<sidebar, range, last>>

\* the Catalog's fetch / URL controller state
controllerVars == <<searchParams, searchQuery, loading, error, genres, platforms,
                    mounted, inflight, failedCalls>>

\* the Profile and Home pages and the server data behind them
pageVars == <<profile, home, backend, client>>

vars == <<sidebar, range, last, allGames, selectedGenre, selectedPlatform,
          minPrice, maxPrice, sortBy, games, controllerVars, pageVars>>

----------------------------------------------------------------------------
(* Bounds and input domains                                                *)

\* longest fetched game list
MaxGames == 3

\* values a slider drag or a typed number can hand to the handlers
PriceInputs == {-1, 0, 1, 2, 400, 500, 9998, 9999, 10000, 10001}

\* (min, max) pairs the Catalog is handed in the filter specification
FilterPrices == {0, 500, 1000, 10000}

null == <<>>

GenreIds == {1, 2}

PlatformIds == {1, 2}

\* the five options of the sort dropdown, and the strings setSortBy accepts
sortOptions == {"newest", "oldest", "price-asc", "price-desc", "rating"}

SortInputs == sortOptions \cup {"popular"}

\* fetched games: release_date is the ISO date <<year, month, day>>
GamePool ==
  << [id |-> 1, genre_id |-> 1, platform_id |-> 1, price |-> 0,
      rating |-> 0, release_date |-> <<2020, 2, 29>>],
     [id |-> 2, genre_id |-> 1, platform_id |-> 2, price |-> 500,
      rating |-> 4, release_date |-> <<2020, 3, 1>>],
     [id |-> 3, genre_id |-> 2, platform_id |-> 1, price |-> 500,
      rating |-> 4, release_date |-> <<2020, 3, 1>>],
     [id |-> 4, genre_id |-> 1, platform_id |-> 1, price |-> 1000,
      rating |-> 5, release_date |-> <<2019, 12, 31>>] >>

----------------------------------------------------------------------------
(* Math.min / Math.max                                                     *)

Min2(a, b) == IF a <= b THEN a ELSE b

Max2(a, b) == IF a >= b THEN a ELSE b

Min3(a, b, c) == Min2(a, Min2(b, c))

\* the elements of a list
Range(s) == {s[i] : i \in DOMAIN s}

----------------------------------------------------------------------------
(* new Date(release_date).getTime() for an ISO date: the number of days    *)
(* since 1970-01-01 (the code's milliseconds are this number times         *)
(* 86 400 000, which does not fit TLC's integers and keeps every sign).    *)

getTime(date) ==
  LET y   == IF date[2] <= 2 THEN date[1] - 1 ELSE date[1]
      era == y \div 400
      yoe == y - era * 400
      mp  == (date[2] + 9) % 12
      doy == (153 * mp + 2) \div 5 + date[3] - 1
      doe == yoe * 365 + yoe \div 4 - yoe \div 100 + doy
  IN  era * 146097 + doe - 719468

----------------------------------------------------------------------------
(* Catalog.getFilteredGames                                                *)

\* the comparator handed to Array.prototype.sort for each case of the switch
compare_swapped(key, a, b) ==
  CASE key = "newest"     -> getTime(b.release_date) - getTime(a.release_date)
    [] key = "oldest"     -> getTime(a.release_date) - getTime(b.release_date)
    [] key = "price-asc"  -> b.price - a.price
    [] key = "price-desc" -> b.price - a.price
    [] key = "rating"     -> b.rating - a.rating

compare(key, a, b) ==
  CASE key = "newest"     -> getTime(b.release_date) - getTime(a.release_date)
    [] key = "oldest"     -> getTime(a.release_date) - getTime(b.release_date)
    [] key = "price-asc"  -> a.price - b.price
    [] key = "price-desc" -> b.price - a.price
    [] key = "rating"     -> b.rating - a.rating

\* Array.prototype.sort is stable (ECMAScript 2019): x goes after every
\* element that does not compare greater than it
RECURSIVE insert(_, _, _)
insert(s, x, key) ==
  IF s = <<>> THEN <<x>>
  ELSE IF compare(key, s[Len(s)], x) > 0
       THEN Append(insert(SubSeq(s, 1, Len(s) - 1), x, key), s[Len(s)])
       ELSE Append(s, x)

RECURSIVE sort(_, _)
sort(s, key) ==
  IF s = <<>> THEN <<>>
  ELSE insert(sort(SubSeq(s, 1, Len(s) - 1), key), s[Len(s)], key)

genreFilter(game, genre) == game.genre_id = genre[1]

platformFilter(game, platform) == game.platform_id = platform[1]

priceFilter_swapped(game, lo, hi) == game.price >= hi /\ game.price <= lo

priceFilter_exclusive(game, lo, hi) == game.price >= lo /\ game.price < hi

priceFilter(game, lo, hi) == game.price >= lo /\ game.price <= hi

\* the switch on sortBy: no default case
sortSwitch_default_newest(filtered, key) ==
  IF key \in sortOptions THEN sort(filtered, key) ELSE sort(filtered, "newest")

sortSwitch(filtered, key) ==
  IF key \in sortOptions THEN sort(filtered, key) ELSE filtered

getFilteredGames(all, genre, platform, lo, hi, key) ==
  LET f1 == IF genre # null
            THEN SelectSeq(all, LAMBDA g : genreFilter(g, genre))
            ELSE all
      f2 == IF platform # null
            THEN SelectSeq(f1, LAMBDA g : platformFilter(g, platform))
            ELSE f1
      f3 == SelectSeq(f2, LAMBDA g : priceFilter(g, lo, hi))
  IN  sortSwitch(f3, key)

\* which array object an expression yields: [...a] and a.filter(..) build a
\* new array; without them the name still refers to the array it was given
spread_alias(ref) == ref

spread(ref) == "new"

arrayFilter(ref) == "new"

\* the array object that the switch sorts in place
filteredRef(genre, platform) ==
  LET r0 == spread("allGames")
      r1 == IF genre # null THEN arrayFilter(r0) ELSE r0
      r2 == IF platform # null THEN arrayFilter(r1) ELSE r1
  IN  arrayFilter(r2)

\* the content of the allGames array after getFilteredGames has run:
\* Array.prototype.sort reorders the array it is called on
allGamesAfter_sorts_input(all, genre, platform, key) == sortSwitch(all, key)

allGamesAfter(all, genre, platform, key) ==
  IF filteredRef(genre, platform) = "allGames" THEN sortSwitch(all, key) ELSE all

----------------------------------------------------------------------------
(* Catalog: the state setters handed to FilterSidebar, each followed by    *)
(* the re-render that recomputes games                                     *)

\* the render after a state change; all is the allGames array it is handed.
\* if (loading) return ..; if (error) return ..; come before
\* const games = getFilteredGames(), so those two views compute no game list
render(all) ==
  IF loading' \/ error' # null
  THEN /\ games' = <<>>
       /\ allGames' = all
  ELSE /\ games' = getFilteredGames(all, selectedGenre', selectedPlatform',
                                    minPrice', maxPrice', sortBy')
       /\ allGames' = allGamesAfter(all, selectedGenre', selectedPlatform', sortBy')

handlePriceChange(min, max) ==
  /\ minPrice' = min
  /\ maxPrice' = max
  /\ UNCHANGED <<selectedGenre, selectedPlatform, sortBy>>
  /\ render(allGames)

setSelectedGenre(genre) ==
  /\ selectedGenre' = genre
  /\ UNCHANGED <<selectedPlatform, minPrice, maxPrice, sortBy>>
  /\ render(allGames)

setSelectedPlatform(platform) ==
  /\ selectedPlatform' = platform
  /\ UNCHANGED <<selectedGenre, minPrice, maxPrice, sortBy>>
  /\ render(allGames)

setSortBy(key) ==
  /\ sortBy' = key
  /\ UNCHANGED <<selectedGenre, selectedPlatform, minPrice, maxPrice>>
  /\ render(allGames)

\* fetchGames resolved: setAllGames(fetchedGames)
setAllGames(fetchedGames) ==
  /\ UNCHANGED <<selectedGenre, selectedPlatform, minPrice, maxPrice, sortBy>>
  /\ render(fetchedGames)

catalogUnchanged ==
  UNCHANGED <<allGames, selectedGenre, selectedPlatform, minPrice, maxPrice,
              sortBy, games>>

----------------------------------------------------------------------------
(* FilterSidebar of src/unnamed/part_000: guarded, clamping handlers       *)

\* if (range.max === 1) return;
handleMinChange_guard_never == FALSE

handleMinChange_guard == range.max = 1

\* if (range.min === 9999) return;
handleMaxChange_guard == range.min = 9999

\* const newMin = Math.min(value, 9999, range.max);
newMin_unlinked(value) == Min2(value, 9999)

newMin(value) == Min3(value, 9999, range.max)

\* const newMax = Math.max(range.min, Math.min(value, 10000));
newMax(value) == Max2(range.min, Min2(value, 10000))

\* the arguments of onPriceChange(newMin, range.max)
handleMinChange_report_stale(value) == <<range.min, range.max>>

handleMinChange_report(value) == <<newMin(value), range.max>>

\* the arguments of onPriceChange(range.min, newMax)
handleMaxChange_report(value) == <<range.min, newMax(value)>>

handleMinChange(value) ==
  /\ sidebar = "part_000"
  /\ IF handleMinChange_guard
     THEN /\ last' = [op |-> "handleMinChange", value |-> value,
                      committed |-> FALSE, reported |-> <<>>]
          /\ UNCHANGED <<sidebar, range>>
          /\ catalogUnchanged
     ELSE LET args == handleMinChange_report(value)
          IN  /\ range' = [range EXCEPT !.min = newMin(value)]
              /\ handlePriceChange(args[1], args[2])
              /\ last' = [op |-> "handleMinChange", value |-> value,
                          committed |-> TRUE, reported |-> args]
              /\ UNCHANGED sidebar

handleMaxChange(value) ==
  /\ sidebar = "part_000"
  /\ IF handleMaxChange_guard
     THEN /\ last' = [op |-> "handleMaxChange", value |-> value,
                      committed |-> FALSE, reported |-> <<>>]
          /\ UNCHANGED <<sidebar, range>>
          /\ catalogUnchanged
     ELSE LET args == handleMaxChange_report(value)
          IN  /\ range' = [range EXCEPT !.max = newMax(value)]
              /\ handlePriceChange(args[1], args[2])
              /\ last' = [op |-> "handleMaxChange", value |-> value,
                          committed |-> TRUE, reported |-> args]
              /\ UNCHANGED sidebar

----------------------------------------------------------------------------
(* FilterSidebar of src/frontend/.../FilterSidebar.tsx: no guard, no clamp *)
(* to the domain                                                           *)

\* const newMin = Math.min(value, range.max);
newMin_tsx(value) == Min2(value, range.max)

\* const newMax = Math.max(value, range.min);
newMax_tsx(value) == Max2(value, range.min)

handleMinChange_tsx(value) ==
  /\ sidebar = "FilterSidebar.tsx"
  /\ range' = [range EXCEPT !.min = newMin_tsx(value)]
  /\ handlePriceChange(newMin_tsx(value), range.max)
  /\ last' = [op |-> "handleMinChange", value |-> value,
              committed |-> TRUE, reported |-> <<newMin_tsx(value), range.max>>]
  /\ UNCHANGED sidebar

handleMaxChange_tsx(value) ==
  /\ sidebar = "FilterSidebar.tsx"
  /\ range' = [range EXCEPT !.max = newMax_tsx(value)]
  /\ handlePriceChange(range.min, newMax_tsx(value))
  /\ last' = [op |-> "handleMaxChange", value |-> value,
              committed |-> TRUE, reported |-> <<range.min, newMax_tsx(value)>>]
  /\ UNCHANGED sidebar

----------------------------------------------------------------------------
(* Specifications                                                          *)

\* useState initial values of Profile (src/unnamed/part_002:15-19); pending
\* holds its requests awaiting a response, outcome how each read has ended
Profile_useState ==
  [orders |-> <<>>, libraryGames |-> <<>>, userReviews |-> <<>>, allGames |-> <<>>,
   loading |-> FALSE, pending |-> {},
   outcome |-> [games |-> "none", orders |-> "none", library |-> "none",
                reviews |-> "none"]]

\* useState initial values of Home (src/unnamed/part_002:332-335, 426) in
\* either source variant, with the constants of its first render
Home_useState(variant) ==
  [variant |-> variant, mounted |-> FALSE, games |-> <<>>, loading |-> TRUE,
   error |-> null, currentSlide |-> 0, featuredGames |-> <<>>,
   featuredFrom |-> "none", topRatedGames |-> <<>>, pending |-> {},
   loadOutcome |-> "none"]

noBackend == [games |-> <<>>, orders |-> <<>>, library |-> <<>>, reviews |-> <<>>]

\* the ApiService between calls
noCall ==
  [phase |-> "idle", method |-> "", fetches |-> <<>>,
   response |-> [kind |-> "none", status |-> 0,
                 body |-> [parsable |-> FALSE, object |-> <<>>]],
   outcome |-> [ok |-> FALSE, value |-> <<>>, message |-> <<>>]]

\* neither the Profile nor the Home page is open, no direct API call is made
pagesIdle ==
  /\ profile = Profile_useState
  /\ home = Home_useState("part_002")
  /\ backend = noBackend
  /\ client = noCall

\* the state after the Catalog and its FilterSidebar are constructed:
\* useState({ min: minPrice, max: maxPrice }) with minPrice 0, maxPrice 10000
Init ==
  /\ sidebar \in {"part_000", "FilterSidebar.tsx"}
  /\ allGames = <<>>
  /\ selectedGenre = null
  /\ selectedPlatform = null
  /\ minPrice = 0
  /\ maxPrice = 10000
  /\ sortBy = "newest"
  /\ range = [min |-> minPrice, max |-> maxPrice]
  /\ last = [op |-> "mount", value |-> 0, committed |-> FALSE, reported |-> <<>>]
  /\ games = <<>>
  /\ searchParams = [search |-> "", genre |-> ""]
  /\ searchQuery = ""
  /\ loading = FALSE
  /\ error = null
  /\ genres = <<>>
  /\ platforms = <<>>
  /\ mounted = TRUE
  /\ inflight = <<>>
  /\ failedCalls = {}
  /\ pagesIdle

\* the price range control: slider drags and typed values
Next ==
  \/ \E value \in PriceInputs : UNCHANGED <<controllerVars, pageVars>> /\ handleMinChange(value)
  \/ \E value \in PriceInputs : UNCHANGED <<controllerVars, pageVars>> /\ handleMaxChange(value)
  \/ \E value \in PriceInputs : UNCHANGED <<controllerVars, pageVars>> /\ handleMinChange_tsx(value)
  \/ \E value \in PriceInputs : UNCHANGED <<controllerVars, pageVars>> /\ handleMaxChange_tsx(value)

Spec == Init /\ [][Next]_vars

\* the shape of the state: useState declarations of Catalog and FilterSidebar
TypeOK ==
  /\ sidebar \in {"part_000", "FilterSidebar.tsx"}
  /\ range \in [min : Int, max : Int]
  /\ last.op \in {"mount", "handleMinChange", "handleMaxChange"}
  /\ last.committed \in BOOLEAN
  /\ \A i \in DOMAIN allGames : allGames[i] \in Range(GamePool)
  /\ selectedGenre \in {null} \cup {<<id>> : id \in GenreIds}
  /\ selectedPlatform \in {null} \cup {<<id>> : id \in PlatformIds}
  /\ minPrice \in Int
  /\ maxPrice \in Int
  /\ sortBy \in SortInputs
  /\ \A i \in DOMAIN games : games[i] \in Range(GamePool)
  /\ searchParams \in [search : STRING, genre : STRING]
  /\ searchQuery \in STRING
  /\ loading \in BOOLEAN
  /\ error = null \/ (Len(error) = 1 /\ error[1] \in STRING)
  /\ mounted \in BOOLEAN
  /\ \A i \in DOMAIN inflight : inflight[i].op \in {"loadInitialData", "fetchGames"}

\* every list of distinct pool games a games fetch can resolve with
GameLists ==
  { s \in UNION { [1..n -> 1..Len(GamePool)] : n \in 0..Min2(MaxGames, Len(GamePool)) } :
      \A i, j \in DOMAIN s : i # j => s[i] # s[j] }

fetched(s) == [i \in DOMAIN s |-> GamePool[s[i]]]

\* the Catalog's filter pipeline, driven through the callbacks the Catalog
\* hands to its sidebar and through resolved games fetches
NextFilter ==
  \/ \E s \in GameLists :
        UNCHANGED <<sidebarVars, controllerVars, pageVars>> /\ setAllGames(fetched(s))
  \/ \E genre \in {null} \cup {<<id>> : id \in GenreIds} :
        UNCHANGED <<sidebarVars, controllerVars, pageVars>> /\ setSelectedGenre(genre)
  \/ \E platform \in {null} \cup {<<id>> : id \in PlatformIds} :
        UNCHANGED <<sidebarVars, controllerVars, pageVars>> /\ setSelectedPlatform(platform)
  \/ \E min \in FilterPrices, max \in FilterPrices :
        /\ min <= max
        /\ UNCHANGED <<sidebarVars, controllerVars, pageVars>>
        /\ handlePriceChange(min, max)
  \/ \E key \in SortInputs : UNCHANGED <<sidebarVars, controllerVars, pageVars>> /\ setSortBy(key)

SpecFilter == Init /\ [][NextFilter]_vars

----------------------------------------------------------------------------
(* Catalog of src/unnamed/part_003: the URL, the search query, the fetches *)
(* and the loading / error / list views                                    *)

\* bound on the async calls that await their response at the same time
MaxInflight == 2

\* the keywords a user submits; "" is the emptied search box
Queries == {"", "rpg"}

\* the values of the genre query parameter; "" is the absent parameter
GenreParams == {"", "1", "02"}

\* the query strings the Catalog is opened on or navigated to;
\* searchParams.get(name) of an absent parameter is falsy like ''
URLs == [search : Queries, genre : GenreParams]

\* Number(genreParam) of the parameter strings above
Number(str) == CASE str = "1" -> 1 [] str = "02" -> 2

\* the requests of services/api.ts: the endpoint and its argument
getGenres == [api |-> "getGenres", arg |-> ""]

getPlatforms == [api |-> "getPlatforms", arg |-> ""]

getGames == [api |-> "getGames", arg |-> ""]

searchGames(query) == [api |-> "searchGames", arg |-> query]

\* what the server answers: its tables do not change during a session
serverGenres == <<1, 2>>

serverPlatforms == <<1, 2>>

serverGames(call) ==
  IF call.api = "searchGames" THEN <<GamePool[2], GamePool[3]>> ELSE GamePool

\* the message of the Error that api.request throws
serverError == <<"HTTP error! status: 500">>

\* if (searchQuery) api.searchGames(searchQuery) else api.getGames()
fetchGames_call_always_list(query) == getGames

fetchGames_call(query) == IF query # "" THEN searchGames(query) ELSE getGames

\* the pending async function: which one, and the requests it awaits
loadInitialData_begin ==
  [op |-> "loadInitialData", calls |-> {getGenres, getPlatforms}]

fetchGames_begin(query) == [op |-> "fetchGames", calls |-> {fetchGames_call(query)}]

\* what the retry button of the error view starts: onClick={fetchGames}
retry_begin(query) == fetchGames_begin(query)

\* useEffect on [searchParams]:
\* if (genreParam) setSelectedGenre(Number(genreParam))
genreEffect(params) ==
  IF params.genre # "" THEN <<Number(params.genre)>> ELSE selectedGenre

\* setSearchParams({ search: query }) or setSearchParams({})
handleSearch_params(query) == [search |-> query, genre |-> ""]

remove(s, i) == SubSeq(s, 1, i - 1) \o SubSeq(s, i + 1, Len(s))

\* the list view is on screen: neither the loading nor the error view
listView == mounted /\ ~loading /\ error = null

\* the first render's effects, in declaration order: loadInitialData(),
\* the genre parameter effect, fetchGames()
Mount ==
  /\ ~mounted
  /\ Len(inflight) + 2 <= MaxInflight
  /\ mounted' = TRUE
  /\ loading' = TRUE
  /\ inflight' = inflight \o <<loadInitialData_begin, fetchGames_begin(searchQuery)>>
  /\ selectedGenre' = genreEffect(searchParams)
  /\ UNCHANGED <<searchParams, searchQuery, error, genres, platforms, failedCalls>>
  /\ UNCHANGED <<selectedPlatform, minPrice, maxPrice, sortBy, sidebarVars>>
  /\ render(allGames)

\* SearchBar submits query; a changed searchQuery runs the fetchGames effect
handleSearch(query) ==
  /\ listView
  /\ query # searchQuery => Len(inflight) < MaxInflight
  /\ searchQuery' = query
  /\ searchParams' = handleSearch_params(query)
  /\ selectedGenre' = genreEffect(searchParams')
  /\ IF query # searchQuery
     THEN /\ loading' = TRUE
          /\ inflight' = Append(inflight, fetchGames_begin(query))
     ELSE UNCHANGED <<loading, inflight>>
  /\ UNCHANGED <<error, genres, platforms, mounted, failedCalls>>
  /\ UNCHANGED <<selectedPlatform, minPrice, maxPrice, sortBy, sidebarVars>>
  /\ render(allGames)

\* the retry button of the error view
retry ==
  /\ mounted /\ ~loading /\ error # null
  /\ Len(inflight) < MaxInflight
  /\ loading' = TRUE
  /\ inflight' = Append(inflight, retry_begin(searchQuery))
  /\ UNCHANGED <<searchParams, searchQuery, error, genres, platforms, mounted,
                 failedCalls>>
  /\ UNCHANGED <<selectedGenre, selectedPlatform, minPrice, maxPrice, sortBy,
                 sidebarVars>>
  /\ render(allGames)

\* the router hands the mounted Catalog a new query string (a link, back or
\* forward); only the [searchParams] effect runs
navigate(params) ==
  /\ mounted
  /\ params # searchParams
  /\ searchParams' = params
  /\ selectedGenre' = genreEffect(params)
  /\ UNCHANGED <<searchQuery, loading, error, genres, platforms, mounted, inflight,
                 failedCalls>>
  /\ UNCHANGED <<selectedPlatform, minPrice, maxPrice, sortBy, sidebarVars>>
  /\ render(allGames)

\* loadInitialData: both requests resolved; finally setLoading(false)
loadInitialData_then(i) ==
  /\ i \in DOMAIN inflight
  /\ inflight[i].op = "loadInitialData"
  /\ inflight' = remove(inflight, i)
  /\ genres' = serverGenres
  /\ platforms' = serverPlatforms
  /\ loading' = FALSE
  /\ UNCHANGED <<searchParams, searchQuery, error, mounted, failedCalls>>
  /\ UNCHANGED <<selectedGenre, selectedPlatform, minPrice, maxPrice, sortBy,
                 sidebarVars>>
  /\ render(allGames)

\* loadInitialData: a request rejected; setError(..), finally setLoading(false)
loadInitialData_catch(i) ==
  /\ i \in DOMAIN inflight
  /\ inflight[i].op = "loadInitialData"
  /\ inflight' = remove(inflight, i)
  /\ error' = serverError
  /\ failedCalls' = inflight[i].calls
  /\ loading' = FALSE
  /\ UNCHANGED <<searchParams, searchQuery, genres, platforms, mounted>>
  /\ UNCHANGED <<selectedGenre, selectedPlatform, minPrice, maxPrice, sortBy,
                 sidebarVars>>
  /\ render(allGames)

\* fetchGames: the request resolved; setAllGames(data), finally setLoading(false)
fetchGames_then(i) ==
  /\ i \in DOMAIN inflight
  /\ inflight[i].op = "fetchGames"
  /\ inflight' = remove(inflight, i)
  /\ loading' = FALSE
  /\ UNCHANGED <<searchParams, searchQuery, error, genres, platforms, mounted,
                 failedCalls, sidebarVars>>
  /\ \E call \in inflight[i].calls : setAllGames(serverGames(call))

\* fetchGames: the request rejected; setError(..), finally setLoading(false)
fetchGames_catch(i) ==
  /\ i \in DOMAIN inflight
  /\ inflight[i].op = "fetchGames"
  /\ inflight' = remove(inflight, i)
  /\ error' = serverError
  /\ failedCalls' = inflight[i].calls
  /\ loading' = FALSE
  /\ UNCHANGED <<searchParams, searchQuery, genres, platforms, mounted>>
  /\ UNCHANGED <<selectedGenre, selectedPlatform, minPrice, maxPrice, sortBy,
                 sidebarVars>>
  /\ render(allGames)

\* the Catalog before its first effects: it is opened on any of the URLs;
\* useState(searchParams.get('search') || ''), useState(true) for loading
InitCatalog ==
  /\ sidebar = "FilterSidebar.tsx"
  /\ searchParams \in URLs
  /\ searchQuery = searchParams.search
  /\ allGames = <<>>
  /\ selectedGenre = null
  /\ selectedPlatform = null
  /\ minPrice = 0
  /\ maxPrice = 10000
  /\ sortBy = "newest"
  /\ range = [min |-> minPrice, max |-> maxPrice]
  /\ last = [op |-> "mount", value |-> 0, committed |-> FALSE, reported |-> <<>>]
  /\ games = <<>>
  /\ loading = TRUE
  /\ error = null
  /\ genres = <<>>
  /\ platforms = <<>>
  /\ mounted = FALSE
  /\ inflight = <<>>
  /\ failedCalls = {}
  /\ pagesIdle

\* the sidebar choices exercised together with the fetches
CatalogPrices == {<<0, 10000>>, <<0, 500>>}

CatalogSorts == {"newest", "rating"}

NextCatalog ==
  \/ Mount /\ UNCHANGED pageVars
  \/ \E query \in Queries : handleSearch(query) /\ UNCHANGED pageVars
  \/ retry /\ UNCHANGED pageVars
  \/ \E params \in URLs : navigate(params) /\ UNCHANGED pageVars
  \/ \E i \in 1..MaxInflight + 1 : loadInitialData_then(i) /\ UNCHANGED pageVars
  \/ \E i \in 1..MaxInflight + 1 : loadInitialData_catch(i) /\ UNCHANGED pageVars
  \/ \E i \in 1..MaxInflight + 1 : fetchGames_then(i) /\ UNCHANGED pageVars
  \/ \E i \in 1..MaxInflight + 1 : fetchGames_catch(i) /\ UNCHANGED pageVars
  \/ \E genre \in {null} \cup {<<id>> : id \in GenreIds} :
        listView /\ UNCHANGED <<sidebarVars, controllerVars, pageVars>> /\ setSelectedGenre(genre)
  \/ \E platform \in {null, <<1>>} :
        listView /\ UNCHANGED <<sidebarVars, controllerVars, pageVars>>
                 /\ setSelectedPlatform(platform)
  \/ \E p \in CatalogPrices :
        listView /\ UNCHANGED <<sidebarVars, controllerVars, pageVars>>
                 /\ handlePriceChange(p[1], p[2])
  \/ \E key \in CatalogSorts :
        listView /\ UNCHANGED <<sidebarVars, controllerVars, pageVars>> /\ setSortBy(key)

SpecCatalog == InitCatalog /\ [][NextCatalog]_vars

----------------------------------------------------------------------------
(* Helpers of the properties                                               *)

\* the position of game g in the list s
pos(s, g) == CHOOSE i \in DOMAIN s : s[i] = g

Clamp(v, lo, hi) == Max2(lo, Min2(v, hi))

\* calendar order of two ISO dates
DateLess(a, b) ==
  \/ a[1] < b[1]
  \/ a[1] = b[1] /\ a[2] < b[2]
  \/ a[1] = b[1] /\ a[2] = b[2] /\ a[3] < b[3]

\* g must come strictly before h under the sort key
Precedes(key, g, h) ==
  CASE key = "newest"     -> DateLess(h.release_date, g.release_date)
    [] key = "oldest"     -> DateLess(g.release_date, h.release_date)
    [] key = "price-asc"  -> g.price < h.price
    [] key = "price-desc" -> g.price > h.price
    [] key = "rating"     -> g.rating > h.rating

\* the predicates of the filter state that are active
Passes(g) ==
  /\ selectedGenre = null \/ g.genre_id = selectedGenre[1]
  /\ selectedPlatform = null \/ g.platform_id = selectedPlatform[1]
  /\ minPrice <= g.price
  /\ g.price <= maxPrice

----------------------------------------------------------------------------
(* Properties of the price range control                                   *)

\* C1: after any sequence of handleMinChange / handleMaxChange calls the
\* committed range satisfies 0 <= min < max <= 10000.
C1_RangeSliderInvariant ==
  0 <= range.min /\ range.min < range.max /\ range.max <= 10000

\* C2: the two price bounds never cross, in the sidebar's range state and in
\* the Catalog's (minPrice, maxPrice).
C2_BoundsNeverCross ==
  range.min <= range.max /\ minPrice <= maxPrice

\* a proposed min above the current max was committed, and met the max
C2_Witness ==
  /\ last.op = "handleMinChange"
  /\ last.committed
  /\ last.value > range.max
  /\ range.min = range.max
  /\ minPrice = maxPrice

\* C3: a handleMinChange(v) that is not rejected commits
\* min = minimum(clamp(v, 0, 9999), current max) and leaves max unchanged.
C3_MinCommit ==
  [][ (sidebar = "part_000" /\ last'.op = "handleMinChange" /\ last'.committed)
        => /\ range'.min = Min2(Clamp(last'.value, 0, 9999), range.max)
           /\ range'.max = range.max ]_vars

\* C4: a handleMaxChange(v) that is not rejected commits
\* max = maximum(clamp(v, 1, 10000), current min) and leaves min unchanged.
C4_MaxCommit ==
  [][ (sidebar = "part_000" /\ last'.op = "handleMaxChange" /\ last'.committed)
        => /\ range'.max = Max2(Clamp(last'.value, 1, 10000), range.min)
           /\ range'.min = range.min ]_vars

\* C5: with max = 1 a handleMinChange call, and with min = 9999 a
\* handleMaxChange call, is a no-op: the range and the Catalog's price state
\* are unchanged and onPriceChange is not called.
C5_GuardNoOp ==
  [][ ( /\ sidebar = "part_000"
        /\ \/ last'.op = "handleMinChange" /\ range.max = 1
           \/ last'.op = "handleMaxChange" /\ range.min = 9999 )
        => /\ range' = range
           /\ minPrice' = minPrice /\ maxPrice' = maxPrice
           /\ ~last'.committed
           /\ last'.reported = <<>> ]_vars

\* a min-decrease attempt was made with max at 1 and was rejected
C5_Witness ==
  /\ sidebar = "part_000"
  /\ last.op = "handleMinChange"
  /\ range.max = 1
  /\ last.value < range.min
  /\ ~last.committed

\* C6: every committed change is reported through onPriceChange in the same
\* step as the full new (min, max) pair, so the Catalog's (minPrice, maxPrice)
\* equals the sidebar's range.
C6_ReportedUpward ==
  /\ minPrice = range.min
  /\ maxPrice = range.max
  /\ last.committed => last.reported = <<range.min, range.max>>

\* a commit moved the min and the Catalog holds the moved pair
C6_Witness ==
  /\ last.op = "handleMinChange"
  /\ last.committed
  /\ range.min = 500
  /\ last.reported = <<500, range.max>>
  /\ minPrice = 500

----------------------------------------------------------------------------
(* Properties of the filter / sort pipeline                                *)

\* C7: getFilteredGames returns only games of allGames, each once, and a
\* game is returned exactly when it satisfies all active predicates: genre
\* (if selected), platform (if selected) and minPrice <= price <= maxPrice
\* with both bounds inclusive.
C7_FilterExact ==
  /\ \A i \in DOMAIN games : games[i] \in Range(allGames)
  /\ \A i, j \in DOMAIN games : i # j => games[i] # games[j]
  /\ \A g \in Range(allGames) : g \in Range(games) <=> Passes(g)

\* all three filters are active; a game priced exactly maxPrice and a game
\* priced exactly minPrice are kept, and another game is filtered out
C7_Witness ==
  /\ selectedGenre # null
  /\ selectedPlatform # null
  /\ minPrice < maxPrice
  /\ \E g \in Range(games) : g.price = maxPrice
  /\ \E g \in Range(games) : g.price = minPrice
  /\ Len(games) < Len(allGames)

\* C8: for the same allGames, clearing the genre filter, clearing the
\* platform filter or widening the price range never removes a game from
\* the result.
C8_FilterMonotone ==
  [][ ( /\ allGames' = allGames
        /\ selectedGenre' = selectedGenre \/ selectedGenre' = null
        /\ selectedPlatform' = selectedPlatform \/ selectedPlatform' = null
        /\ minPrice' <= minPrice
        /\ maxPrice' >= maxPrice )
        => Range(games) \subseteq Range(games') ]_vars

\* the genre filter is clear and the price range is wide, and the result
\* holds games that a genre filter and a narrower range each remove
C8_Witness ==
  /\ selectedGenre = null
  /\ minPrice < maxPrice
  /\ \E id \in GenreIds :
       LET narrow == Range(getFilteredGames(allGames, <<id>>, selectedPlatform,
                                            minPrice, maxPrice, sortBy))
       IN  narrow # {} /\ narrow # Range(games) /\ narrow \subseteq Range(games)
  /\ LET point == Range(getFilteredGames(allGames, selectedGenre, selectedPlatform,
                                         maxPrice, maxPrice, sortBy))
     IN  point # {} /\ point # Range(games) /\ point \subseteq Range(games)

\* C9: for each recognized sort key the result is ordered by that key
\* (newest: release_date descending, oldest: ascending, price-asc,
\* price-desc, rating: descending), and two games with equal key keep the
\* relative order they had in allGames.
C9_SortedStable ==
  sortBy \in sortOptions =>
    \A i, j \in DOMAIN games :
      i < j =>
        /\ ~Precedes(sortBy, games[j], games[i])
        /\ ~Precedes(sortBy, games[i], games[j])
             => pos(allGames, games[i]) < pos(allGames, games[j])

\* sorting by price moved a game forward, and two games tied on price stand
\* in their fetched order
C9_Witness ==
  /\ sortBy = "price-asc"
  /\ Len(games) = 3
  /\ \E i, j \in DOMAIN games :
       i < j /\ pos(allGames, games[i]) > pos(allGames, games[j])
  /\ \E i, j \in DOMAIN games :
       i < j /\ games[i].price = games[j].price

\* C10: with sortBy outside the five recognized keys the filtered games are
\* returned in the relative order they have in allGames.
C10_UnknownKeyKeepsOrder ==
  sortBy \notin sortOptions =>
    \A i, j \in DOMAIN games :
      i < j => pos(allGames, games[i]) < pos(allGames, games[j])

\* an unrecognized key, a filter that removed a game, and a result in
\* fetched order that the default key and the price key would both reorder
C10_Witness ==
  /\ sortBy \notin sortOptions
  /\ Len(games) >= 2
  /\ Len(games) < Len(allGames)
  /\ sort(games, "newest") # games
  /\ sort(games, "price-asc") # games

\* C11: getFilteredGames never mutates its input: whatever filter or sort
\* key a step sets, allGames has the same content and order after the call,
\* and a second call on the same allGames and filter state returns the same
\* sequence.
C11_InputNotMutated ==
  [][ ( \/ selectedGenre' # selectedGenre
        \/ selectedPlatform' # selectedPlatform
        \/ minPrice' # minPrice \/ maxPrice' # maxPrice
        \/ sortBy' # sortBy )
        => /\ allGames' = allGames
           /\ games' = getFilteredGames(allGames', selectedGenre', selectedPlatform',
                                        minPrice', maxPrice', sortBy') ]_vars

\* no filter removes anything and the sort key reorders the result, while
\* allGames keeps its fetched order
C11_Witness ==
  /\ selectedGenre = null
  /\ selectedPlatform = null
  /\ sortBy = "price-desc"
  /\ Len(games) = Len(allGames)
  /\ Len(games) >= 2
  /\ games # allGames
  /\ sort(allGames, "price-desc") = games

----------------------------------------------------------------------------
(* Catalog controller claims, checked under SpecCatalog                    *)

\* the async functions a step starts: the entries it appends to inflight
started ==
  IF Len(inflight') > Len(inflight)
  THEN SubSeq(inflight', Len(inflight) + 1, Len(inflight'))
  ELSE <<>>

startedFetchGames == SelectSeq(started, LAMBDA f : f.op = "fetchGames")

\* C12: every games fetch that fetchGames issues is a keyword search for the
\* current searchQuery when that is non-empty and the full-list request when
\* it is empty; mounting and every change of searchQuery issue one games
\* fetch; a step that changes only genre, platform, price range or sort key
\* issues no request at all.
C12_FetchStrategy ==
  [][ /\ \A k \in DOMAIN startedFetchGames :
           startedFetchGames[k].calls =
             { IF searchQuery' # ""
               THEN [api |-> "searchGames", arg |-> searchQuery']
               ELSE [api |-> "getGames", arg |-> ""] }
      /\ (mounted' /\ ~mounted) => Len(startedFetchGames) = 1
      /\ searchQuery' # searchQuery => Len(startedFetchGames) = 1
      /\ ( /\ mounted
           /\ searchQuery' = searchQuery
           /\ <<selectedGenre, selectedPlatform, minPrice, maxPrice, sortBy>>'
                # <<selectedGenre, selectedPlatform, minPrice, maxPrice, sortBy>> )
         => inflight' = inflight
    ]_vars

\* a keyword search is in flight after the full list had been loaded
C12_Witness ==
  /\ mounted
  /\ allGames = GamePool
  /\ searchQuery = "rpg"
  /\ \E i \in DOMAIN inflight :
       /\ inflight[i].op = "fetchGames"
       /\ inflight[i].calls = {[api |-> "searchGames", arg |-> "rpg"]}

\* what a Catalog opened on params is seeded with: searchQuery by
\* useState(searchParams.get('search') || ''), selectedGenre by useState(null)
\* followed by the [searchParams] effect of the first render
seedSearch(params) == params.search

seedGenre(params) == IF params.genre # "" THEN <<Number(params.genre)>> ELSE null

\* C13: the mounted Catalog's selectedGenre and searchQuery are those a fresh
\* Catalog opened on the current URL is seeded with.
C13_UrlInSync ==
  mounted => /\ selectedGenre = seedGenre(searchParams)
             /\ searchQuery = seedSearch(searchParams)

\* the requests of the async functions a step starts
startedCalls == UNION {started[k].calls : k \in DOMAIN started}

\* C14: activating the retry action of the error view re-issues the fetch
\* that failed: the same API call or calls with the same arguments.
C14_RetryReissuesFailed ==
  [][ (mounted /\ ~loading /\ error # null /\ Len(inflight') > Len(inflight))
        => startedCalls = failedCalls ]_vars

----------------------------------------------------------------------------
(* Profile of src/unnamed/part_002: loadData and its three loaders         *)

\* bounds on the orders and on the library entries the server returns
MaxUserOrders == 2

MaxLibrary == 2

\* strings that are built or compared character by character are sequences
\* of characters; the second game has the empty title ''
ProfileGamePool ==
  << [id |-> 1, title |-> <<"D", "o", "o", "m">>],
     [id |-> 2, title |-> <<>>] >>

\* the game lists api.getGames() may resolve with
ProfileCatalogs ==
  { <<>>, <<ProfileGamePool[1]>>, <<ProfileGamePool[1], ProfileGamePool[2]>>,
    <<ProfileGamePool[2], ProfileGamePool[1]>> }

\* game_id values of orders and of library entries; 999 is in no catalog
OrderGameIds == {1, 2, 999}

LibraryGameIds == {1, 999}

\* the user's orders as api.getUserOrders resolves them
UserOrders ==
  { [i \in DOMAIN s |-> [id |-> i, game_id |-> s[i]]] :
      s \in UNION { [1..n -> OrderGameIds] : n \in 0..MaxUserOrders } }

\* the user's library as api.getUserLibrary resolves it
UserLibraries ==
  { [i \in DOMAIN s |-> [game_id |-> s[i]]] :
      s \in UNION { [1..n -> LibraryGameIds] : n \in 0..MaxLibrary } }

currentUser == [id |-> 1]

\* what api.getAllReviews resolves with: reviews of two users
AllReviews ==
  << [id |-> 1, user_id |-> 1, game_id |-> 1],
     [id |-> 2, user_id |-> 2, game_id |-> 2],
     [id |-> 3, user_id |-> 1, game_id |-> 999] >>

\* the decimal digits of a number, as a template literal prints it
digit(d) == <<"0", "1", "2", "3", "4", "5", "6", "7", "8", "9">>[d + 1]

RECURSIVE digits(_)
digits(n) == IF n < 10 THEN <<digit(n)>> ELSE digits(n \div 10) \o <<digit(n % 10)>>

\* `#${order.game_id}`
placeholder(game_id) == <<"#">> \o digits(game_id)

\* games.find(g => g.id === id): <<>> is undefined, <<game>> the first match
find(gameList, id) ==
  LET matches == SelectSeq(gameList, LAMBDA g : g.id = id)
  IN  IF matches = <<>> THEN null ELSE <<matches[1]>>

\* data.map(order => ({...order, gameTitle: game?.title ?? `#${order.game_id}`}))
loadOrders_join_drops(data, gameList) ==
  LET resolved == SelectSeq(data, LAMBDA order : find(gameList, order.game_id) # null)
  IN  [i \in DOMAIN resolved |->
         [id |-> resolved[i].id, game_id |-> resolved[i].game_id,
          gameTitle |-> find(gameList, resolved[i].game_id)[1].title]]

loadOrders_join(data, gameList) ==
  [i \in DOMAIN data |->
     LET game == find(gameList, data[i].game_id)
     IN  [id |-> data[i].id, game_id |-> data[i].game_id,
          gameTitle |-> IF game # null THEN game[1].title
                        ELSE placeholder(data[i].game_id)]]

\* library.map(lib => games.find(game => game.id === lib.game_id))
\*        .filter(game => game !== undefined)
loadLibrary_join_keeps_all(library, gameList) ==
  [i \in DOMAIN library |->
     LET game == find(gameList, library[i].game_id)
     IN  IF game # null THEN game[1]
         ELSE [id |-> library[i].game_id, title |-> placeholder(library[i].game_id)]]

loadLibrary_join(library, gameList) ==
  LET found == [i \in DOMAIN library |-> find(gameList, library[i].game_id)]
      defined == SelectSeq(found, LAMBDA game : game # null)
  IN  [i \in DOMAIN defined |-> defined[i][1]]

\* allReviews.filter(review => review.user_id === currentUser.id)
loadUserReviews_filter(allReviews) ==
  SelectSeq(allReviews, LAMBDA review : review.user_id = currentUser.id)

\* the requests loadData has issued when it reaches its first await
loadData_requests_all_at_once ==
  {"getGames", "getUserOrders", "getUserLibrary", "getAllReviews"}

loadData_requests == {"getGames"}

\* await Promise.all([loadOrders(games), loadLibrary(games), loadUserReviews()])
loadData_loaders == {"getUserOrders", "getUserLibrary", "getAllReviews"}

\* a loader has settled; once all have, Promise.all resolves (no loader
\* rejects: each has its own try/catch) and finally runs setLoading(false)
Profile_settle(request, name, result) ==
  LET left == profile.pending \ {request}
  IN  [profile EXCEPT !.pending = left,
                      !.outcome[name] = result,
                      !.loading = IF left = {} THEN FALSE ELSE @]

\* useEffect on [currentUser]: loadData() up to its first await
Profile_loadData ==
  /\ profile.outcome.games = "none"
  /\ profile.pending = {}
  /\ profile' = [profile EXCEPT !.loading = TRUE, !.pending = loadData_requests]
  /\ UNCHANGED backend

\* const games = await api.getGames(); setAllGames(games); the loaders start
Profile_getGames_then ==
  /\ "getGames" \in profile.pending
  /\ profile' = [profile EXCEPT !.allGames = backend.games,
                                !.outcome.games = "ok",
                                !.pending = (@ \ {"getGames"}) \cup loadData_loaders]
  /\ UNCHANGED backend

\* api.getGames() rejected: catch logs, finally setLoading(false)
Profile_getGames_catch ==
  /\ "getGames" \in profile.pending
  /\ profile' = [profile EXCEPT !.outcome.games = "failed",
                                !.pending = @ \ {"getGames"},
                                !.loading = FALSE]
  /\ UNCHANGED backend

Profile_loadOrders_then ==
  /\ "getUserOrders" \in profile.pending
  /\ profile' = [Profile_settle("getUserOrders", "orders", "ok") EXCEPT
                   !.orders = loadOrders_join(backend.orders, profile.allGames)]
  /\ UNCHANGED backend

Profile_loadOrders_catch ==
  /\ "getUserOrders" \in profile.pending
  /\ profile' = Profile_settle("getUserOrders", "orders", "failed")
  /\ UNCHANGED backend

Profile_loadLibrary_then ==
  /\ "getUserLibrary" \in profile.pending
  /\ profile' = [Profile_settle("getUserLibrary", "library", "ok") EXCEPT
                   !.libraryGames = loadLibrary_join(backend.library, profile.allGames)]
  /\ UNCHANGED backend

Profile_loadLibrary_catch ==
  /\ "getUserLibrary" \in profile.pending
  /\ profile' = Profile_settle("getUserLibrary", "library", "failed")
  /\ UNCHANGED backend

Profile_loadUserReviews_then ==
  /\ "getAllReviews" \in profile.pending
  /\ profile' = [Profile_settle("getAllReviews", "reviews", "ok") EXCEPT
                   !.userReviews = loadUserReviews_filter(backend.reviews)]
  /\ UNCHANGED backend

Profile_loadUserReviews_catch ==
  /\ "getAllReviews" \in profile.pending
  /\ profile' = Profile_settle("getAllReviews", "reviews", "failed")
  /\ UNCHANGED backend

\* the Catalog is not on screen: its state as constructed, nothing in flight
catalogClosed ==
  /\ sidebar = "FilterSidebar.tsx"
  /\ allGames = <<>>
  /\ selectedGenre = null
  /\ selectedPlatform = null
  /\ minPrice = 0
  /\ maxPrice = 10000
  /\ sortBy = "newest"
  /\ range = [min |-> minPrice, max |-> maxPrice]
  /\ last = [op |-> "mount", value |-> 0, committed |-> FALSE, reported |-> <<>>]
  /\ games = <<>>
  /\ searchParams = [search |-> "", genre |-> ""]
  /\ searchQuery = ""
  /\ loading = TRUE
  /\ error = null
  /\ genres = <<>>
  /\ platforms = <<>>
  /\ mounted = FALSE
  /\ inflight = <<>>
  /\ failedCalls = {}

catalogVars ==
  <<sidebarVars, allGames, selectedGenre, selectedPlatform, minPrice, maxPrice,
    sortBy, games, controllerVars>>

\* a logged-in user opens the Profile; the server holds any of the data sets
InitProfile ==
  /\ catalogClosed
  /\ profile = Profile_useState
  /\ home = Home_useState("part_002")
  /\ client = noCall
  /\ backend \in [games : ProfileCatalogs, orders : UserOrders,
                  library : UserLibraries, reviews : {AllReviews}]

NextProfile ==
  \/ Profile_loadData /\ UNCHANGED <<catalogVars, home, client>>
  \/ Profile_getGames_then /\ UNCHANGED <<catalogVars, home, client>>
  \/ Profile_getGames_catch /\ UNCHANGED <<catalogVars, home, client>>
  \/ Profile_loadOrders_then /\ UNCHANGED <<catalogVars, home, client>>
  \/ Profile_loadOrders_catch /\ UNCHANGED <<catalogVars, home, client>>
  \/ Profile_loadLibrary_then /\ UNCHANGED <<catalogVars, home, client>>
  \/ Profile_loadLibrary_catch /\ UNCHANGED <<catalogVars, home, client>>
  \/ Profile_loadUserReviews_then /\ UNCHANGED <<catalogVars, home, client>>
  \/ Profile_loadUserReviews_catch /\ UNCHANGED <<catalogVars, home, client>>

SpecProfile == InitProfile /\ [][NextProfile]_vars

----------------------------------------------------------------------------
(* Profile claims, checked under SpecProfile                               *)

\* the label "#<game_id>" of each game_id of OrderGameIds, written out
PlaceholderLabel(game_id) ==
  CASE game_id = 1 -> <<"#", "1">>
    [] game_id = 2 -> <<"#", "2">>
    [] game_id = 999 -> <<"#", "9", "9", "9">>

\* C15: once the orders have loaded, every fetched order is displayed exactly
\* once and in fetched order, with the title of the loaded game of that id
\* as gameTitle, or exactly "#<game_id>" when no loaded game has the id.
C15_OrdersJoin ==
  profile.outcome.orders = "ok" =>
    /\ Len(profile.orders) = Len(backend.orders)
    /\ \A i \in DOMAIN backend.orders :
         LET order == backend.orders[i]
             row == profile.orders[i]
             hits == {g \in Range(profile.allGames) : g.id = order.game_id}
         IN  /\ row.id = order.id
             /\ row.game_id = order.game_id
             /\ hits # {} => \E g \in hits : row.gameTitle = g.title
             /\ hits = {} => row.gameTitle = PlaceholderLabel(order.game_id)

\* an order of a loaded game next to an order of the unknown game 999
C15_Witness ==
  /\ profile.outcome.orders = "ok"
  /\ Len(profile.orders) = 2
  /\ profile.orders[1].game_id = 999
  /\ profile.orders[1].gameTitle = <<"#", "9", "9", "9">>
  /\ profile.orders[2].game_id = 1
  /\ profile.orders[2].gameTitle = <<"D", "o", "o", "m">>

\* the positions of the fetched library entries whose game is loaded
ResolvableEntries ==
  { i \in DOMAIN backend.library :
      \E g \in Range(profile.allGames) : g.id = backend.library[i].game_id }

\* the k-th of them, in fetched order
kthResolvable(k) ==
  CHOOSE i \in ResolvableEntries :
    Cardinality({j \in ResolvableEntries : j < i}) = k - 1

Profile_loadDataDone ==
  /\ profile.outcome.games # "none"
  /\ profile.pending = {}

Loaders == {"orders", "library", "reviews"}

----------------------------------------------------------------------------
(* Home: the carousel variant of src/unnamed/part_002 and the grid variant *)
(* of src/unnamed/part_003                                                 *)

\* bound on the length of the rated game lists
MaxRated == 7

\* bound on the number of orders api.getAllOrders resolves with
MaxOrders == 4

HomeVariants == {"part_002", "part_003"}

\* ratings of the 0..5 scale: unrated, middling, best
Ratings == {0, 3, 5}

\* game lists that differ in their ratings; game i has id i
RatedLists ==
  { [i \in DOMAIN r |-> [id |-> i, rating |-> r[i]]] :
      r \in UNION { [1..n -> Ratings] : n \in 0..MaxRated } }

\* catalogs of the games 4..7, in the order api.getGames() returns them
HomeCatalogs ==
  { [i \in DOMAIN ids |-> [id |-> ids[i], rating |-> 4]] :
      ids \in { <<4, 5>>, <<4, 5, 6>>, <<4, 5, 6, 7>>, <<5, 6, 7, 4>> } }

\* all orders of all users; the games 1, 2, 3 are in none of the catalogs
AllOrders ==
  { [i \in DOMAIN s |-> [id |-> i, game_id |-> s[i]]] :
      s \in UNION { [1..n -> 1..5] : n \in 0..MaxOrders } }

\* .slice(0, 3) in part_002, .slice(0, 6) in part_003
topRatedN(variant) == IF variant = "part_002" THEN 3 ELSE 6

\* s.slice(begin, end) for 0 <= begin <= end
slice(s, begin, end) == SubSeq(s, begin + 1, Min2(end, Len(s)))

\* [...games].sort((a, b) => b.rating - a.rating).slice(0, N)
\*           .filter(game => game.rating > 0)
topRated(gameList, N) ==
  SelectSeq(slice(sort(gameList, "rating"), 0, N), LAMBDA game : game.rating > 0)

\* the games state after the render: sort reorders the array it is called on,
\* which is the state array itself unless the spread has copied it
gamesAfterTopRated(gameList) ==
  IF spread("games") = "games" THEN sort(gameList, "rating") ELSE gameList

\* orders.forEach(order => purchaseCount[order.game_id] = (.. || 0) + 1)
purchaseCount(orders) ==
  [id \in {orders[i].game_id : i \in DOMAIN orders} |->
     Cardinality({i \in DOMAIN orders : orders[i].game_id = id})]

\* Object.entries(obj): integer-like keys come in ascending numeric order,
\* whatever the order of insertion; each key is a string
RECURSIVE objectEntries(_)
objectEntries(obj) ==
  IF DOMAIN obj = {} THEN <<>>
  ELSE LET top == CHOOSE k \in DOMAIN obj : \A j \in DOMAIN obj : j <= k
       IN  Append(objectEntries([k \in DOMAIN obj \ {top} |-> obj[k]]),
                  <<digits(top), obj[top]>>)

\* .sort(([, a], [, b]) => b - a), stable
RECURSIVE sortByCount(_)
sortByCount(entries) ==
  IF entries = <<>> THEN <<>>
  ELSE LET e == entries[Len(entries)]
           front == sortByCount(SubSeq(entries, 1, Len(entries) - 1))
           k == Cardinality({i \in DOMAIN front : front[i][2] - e[2] >= 0})
       IN  SubSeq(front, 1, k) \o <<e>> \o SubSeq(front, k + 1, Len(front))

\* Number(id) of a key of decimal digits
digitValue(c) == CHOOSE d \in 0..9 : digit(d) = c

RECURSIVE NumberOfKey(_)
NumberOfKey(key) ==
  IF Len(key) = 1 THEN digitValue(key[1])
  ELSE 10 * NumberOfKey(SubSeq(key, 1, Len(key) - 1)) + digitValue(key[Len(key)])

\* getMostPurchasedGames once api.getAllOrders() has resolved
getMostPurchasedGames(orders, gameList) ==
  LET top == slice(sortByCount(objectEntries(purchaseCount(orders))), 0, 3)
      sortedGameIds == [i \in DOMAIN top |-> NumberOfKey(top[i][1])]
      found == [i \in DOMAIN sortedGameIds |-> find(gameList, sortedGameIds[i])]
      defined == SelectSeq(found, LAMBDA game : game # null)
      featuredGames == [i \in DOMAIN defined |-> defined[i][1]]
      remainingGames ==
        slice(SelectSeq(gameList,
                        LAMBDA g : \A i \in DOMAIN featuredGames :
                                     featuredGames[i].id # g.id),
              0, 3 - Len(featuredGames))
  IN  IF Len(featuredGames) < 3 THEN featuredGames \o remainingGames
      ELSE featuredGames

\* the constants every render of Home computes before its early returns;
\* the grid variant's featuredGames is games.slice(0, 4)
Home_render(h) ==
  [h EXCEPT !.games = gamesAfterTopRated(h.games),
            !.topRatedGames = topRated(h.games, topRatedN(h.variant)),
            !.featuredGames = IF h.variant = "part_003" THEN slice(h.games, 0, 4)
                              ELSE @]

\* useEffect(() => { loadData(); }, []) up to the await
Home_Mount ==
  /\ ~home.mounted
  /\ home' = Home_render([home EXCEPT !.mounted = TRUE, !.loading = TRUE,
                                      !.pending = {"loadData"},
                                      !.loadOutcome = "pending"])
  /\ UNCHANGED backend

\* loadData: games and genres resolved; setGames, finally setLoading(false);
\* in part_002 the effect on [games] then calls getMostPurchasedGames()
Home_loadData_then ==
  /\ "loadData" \in home.pending
  /\ home' = Home_render(
       [home EXCEPT !.games = backend.games,
                    !.loading = FALSE,
                    !.loadOutcome = "ok",
                    !.pending = IF home.variant = "part_002" /\ Len(backend.games) > 0
                                THEN {"getAllOrders"} ELSE {}])
  /\ UNCHANGED backend

\* loadData: a request rejected; setError(..), finally setLoading(false)
Home_loadData_catch ==
  /\ "loadData" \in home.pending
  /\ home' = Home_render([home EXCEPT !.error = serverError, !.loading = FALSE,
                                      !.loadOutcome = "failed",
                                      !.pending = {}])
  /\ UNCHANGED backend

\* getMostPurchasedGames().then(setFeaturedGames), the orders resolved
Home_getMostPurchasedGames_then ==
  /\ "getAllOrders" \in home.pending
  /\ home' = Home_render(
       [home EXCEPT !.featuredGames = getMostPurchasedGames(backend.orders, home.games),
                    !.featuredFrom = "orders",
                    !.pending = {}])
  /\ UNCHANGED backend

\* catch { return games.slice(0, 3); }
getMostPurchasedGames_fallback_none(gameList) == <<>>

getMostPurchasedGames_fallback(gameList) == slice(gameList, 0, 3)

\* api.getAllOrders() rejected: the catch of getMostPurchasedGames returns
\* the fallback, which .then(setFeaturedGames) stores
Home_getMostPurchasedGames_catch ==
  /\ "getAllOrders" \in home.pending
  /\ home' = Home_render(
       [home EXCEPT !.featuredGames = getMostPurchasedGames_fallback(home.games),
                    !.featuredFrom = "fallback",
                    !.pending = {}])
  /\ UNCHANGED backend

\* the retry button of the error view, onClick={loadData}, pressed while no
\* other request of the page is pending
Home_retry ==
  /\ home.mounted /\ ~home.loading /\ home.error # null
  /\ home.pending = {}
  /\ home' = Home_render([home EXCEPT !.loading = TRUE, !.pending = {"loadData"},
                                      !.loadOutcome = "pending"])
  /\ UNCHANGED backend

\* setInterval(() => setCurrentSlide(prev => (prev + 1) % 3), 5000) of the
\* carousel variant; it runs from the mount on, in every view
Home_timer ==
  /\ home.mounted
  /\ home.variant = "part_002"
  /\ home' = Home_render(
       [home EXCEPT !.currentSlide = (@ + 1) % 3])
  /\ UNCHANGED backend

\* the carousel is on screen: the content view with a featured game
carouselRendered(h) ==
  /\ h.variant = "part_002"
  /\ h.mounted /\ ~h.loading /\ h.error = null
  /\ Len(h.featuredGames) > 0

\* an indicator button, one per element of featuredGames.slice(0, 3):
\* onClick={() => setCurrentSlide(index)}
Home_indicator(index) ==
  /\ carouselRendered(home)
  /\ index < Len(slice(home.featuredGames, 0, 3))
  /\ home' = Home_render([home EXCEPT !.currentSlide = index])
  /\ UNCHANGED backend

\* Home is opened on a server that holds a rated game list and no orders, or
\* (the carousel variant) one of the catalogs and any of the order lists
InitHome ==
  /\ catalogClosed
  /\ profile = Profile_useState
  /\ client = noCall
  /\ \/ /\ \E variant \in HomeVariants : home = Home_useState(variant)
        /\ backend \in [games : RatedLists, orders : {<<>>}, library : {<<>>},
                        reviews : {<<>>}]
     \/ /\ home = Home_useState("part_002")
        /\ backend \in [games : HomeCatalogs, orders : AllOrders, library : {<<>>},
                        reviews : {<<>>}]

NextHome ==
  \/ Home_Mount /\ UNCHANGED <<catalogVars, profile, client>>
  \/ Home_loadData_then /\ UNCHANGED <<catalogVars, profile, client>>
  \/ Home_loadData_catch /\ UNCHANGED <<catalogVars, profile, client>>
  \/ Home_getMostPurchasedGames_then /\ UNCHANGED <<catalogVars, profile, client>>
  \/ Home_getMostPurchasedGames_catch /\ UNCHANGED <<catalogVars, profile, client>>
  \/ Home_retry /\ UNCHANGED <<catalogVars, profile, client>>

SpecHome == InitHome /\ [][NextHome]_vars

\* the carousel variant with its timer and its indicator buttons, opened on
\* one of the catalogs and any of the order lists
InitCarousel ==
  /\ catalogClosed
  /\ profile = Profile_useState
  /\ client = noCall
  /\ home = Home_useState("part_002")
  /\ backend \in [games : HomeCatalogs, orders : AllOrders, library : {<<>>},
                  reviews : {<<>>}]

NextCarousel ==
  \/ NextHome
  \/ Home_timer /\ UNCHANGED <<catalogVars, profile, client>>
  \/ \E index \in 0..2 :
       Home_indicator(index) /\ UNCHANGED <<catalogVars, profile, client>>

SpecCarousel == InitCarousel /\ [][NextCarousel]_vars

----------------------------------------------------------------------------
(* Home claims, checked under SpecHome                                     *)

\* the games with a rating above 0
Rated == {g \in Range(home.games) : g.rating > 0}

\* g comes before h when the games are ordered by rating descending, games
\* of equal rating staying in the order of the collection
RatedBefore(g, h) ==
  \/ g.rating > h.rating
  \/ g.rating = h.rating /\ pos(home.games, g) < pos(home.games, h)

\* C18: topRatedGames is the first N of the rated games ordered by rating
\* descending (N = 3 in part_002, N = 6 in part_003): it holds only rated
\* games of the collection, at most N and as many as there are up to N, in
\* that order, every rated game left out comes after all of them, and the
\* games state is the list as it was fetched.
C18_TopRated ==
  LET N == IF home.variant = "part_002" THEN 3 ELSE 6
      top == home.topRatedGames
  IN  /\ \A i \in DOMAIN top : top[i] \in Rated
      /\ Len(top) = Min2(N, Cardinality(Rated))
      /\ \A i, j \in DOMAIN top : i < j => RatedBefore(top[i], top[j])
      /\ \A g \in Rated \ Range(top) : \A i \in DOMAIN top : RatedBefore(top[i], g)
      /\ home.games = <<>> \/ home.games = backend.games

\* the grid variant cuts seven rated games down to six: the best rated game,
\* fetched last, comes first and the sixth fetched game is left out
C18_Witness ==
  /\ home.variant = "part_003"
  /\ Len(home.games) = 7
  /\ Cardinality(Rated) = 7
  /\ Len(home.topRatedGames) = 6
  /\ home.games[6].rating = 3
  /\ home.games[7].rating = 5
  /\ home.topRatedGames[1] = home.games[7]
  /\ home.games[6] \notin Range(home.topRatedGames)

\* the number of orders of a game, over all fetched orders
purchases(g) ==
  Cardinality({i \in DOMAIN backend.orders : backend.orders[i].game_id = g.id})

\* the position of the first order of a purchased game
firstOrder(g) ==
  CHOOSE i \in DOMAIN backend.orders :
    /\ backend.orders[i].game_id = g.id
    /\ \A j \in 1..(i - 1) : backend.orders[j].game_id # g.id

\* C19: the featured list derived from the orders holds the 3 catalog games
\* (all of them when the catalog has fewer) with the highest purchase
\* counts, in descending count order and none twice: no omitted catalog game
\* has more purchases than an included one, and an unpurchased game is
\* included only when fewer than 3 purchased catalog games exist.
C19_MostPurchased ==
  home.featuredFrom = "orders" =>
    LET featured == home.featuredGames
        catalog == Range(home.games)
    IN  /\ Len(featured) = Min2(3, Len(home.games))
        /\ \A i \in DOMAIN featured : featured[i] \in catalog
        /\ \A i, j \in DOMAIN featured : i # j => featured[i].id # featured[j].id
        /\ \A i, j \in DOMAIN featured :
             i < j => purchases(featured[i]) >= purchases(featured[j])
        /\ \A g \in catalog \ Range(featured) :
             \A i \in DOMAIN featured : purchases(g) <= purchases(featured[i])
        /\ (\E i \in DOMAIN featured : purchases(featured[i]) = 0)
             => Cardinality({g \in catalog : purchases(g) > 0}) < 3

\* C20: of two catalog games with the same purchase count, the one whose
\* first order comes earlier in the fetched orders precedes the other in the
\* featured list, and is the one included when only one of them is.
C20_TieByInputOrder ==
  home.featuredFrom = "orders" =>
    \A g, h \in Range(home.games) :
      ( /\ purchases(g) > 0
        /\ purchases(g) = purchases(h)
        /\ firstOrder(g) < firstOrder(h) )
      => /\ h \in Range(home.featuredGames) => g \in Range(home.featuredGames)
         /\ (g \in Range(home.featuredGames) /\ h \in Range(home.featuredGames))
              => pos(home.featuredGames, g) < pos(home.featuredGames, h)

\* C21: when the all-orders fetch fails, the featured list becomes the first
\* 3 games of the loaded catalog (all of them when there are fewer), and the
\* step touches nothing else: error, loading, games and topRatedGames stay as
\* they were.
C21_OrdersFailureIsolated ==
  [][ ("getAllOrders" \in home.pending /\ home'.featuredFrom = "fallback")
        => /\ Len(home'.featuredGames) = Min2(3, Len(home.games))
           /\ \A i \in DOMAIN home'.featuredGames :
                home'.featuredGames[i] = home.games[i]
           /\ home'.error = home.error
           /\ home'.loading = home.loading
           /\ home'.games = home.games
           /\ home'.topRatedGames = home.topRatedGames ]_vars

\* the page shows its content with the first 3 of 4 games featured, although
\* the orders, had they arrived, would have featured another game first
C21_Witness ==
  /\ home.featuredFrom = "fallback"
  /\ home.error = null
  /\ ~home.loading
  /\ Len(home.games) = 4
  /\ Len(home.featuredGames) = 3
  /\ home.featuredGames[1] = home.games[1]
  /\ backend.orders # <<>>
  /\ getMostPurchasedGames(backend.orders, home.games)[1] # home.games[1]

----------------------------------------------------------------------------
(* ApiService of src/frontend/src/services/api.ts                          *)
(* Texts that the code builds from parts (URLs, JSON bodies, error         *)
(* messages) are sequences of their parts.                                 *)

ApiMethods ==
  {"getGames", "getGameById", "searchGames", "getGenres", "getPlatforms",
   "getUsers", "getUserById", "register", "login", "createUser",
   "getUserLibrary", "updateUser", "createOrder", "getAllOrders",
   "getUserOrders", "deleteOrder", "createReview", "getGameReviews",
   "getAllReviews"}

\* the argument each method that sends data is called with: the object's
\* properties in order, each <<key, "string" or "number", text of the value>>
payloadOf(method) ==
  CASE method = "register" ->
         << <<"name", "string", "bob">>, <<"email", "string", "bob@example.org">>,
            <<"password", "string", "secret">> >>
    [] method = "login" ->
         << <<"name", "string", "bob">>, <<"password", "string", "secret">> >>
    [] method = "createUser" ->
         << <<"name", "string", "bob">>, <<"email", "string", "bob@example.org">>,
            <<"password", "string", "secret">> >>
    [] method = "updateUser" -> << <<"email", "string", "bob@example.org">> >>
    [] method = "createOrder" ->
         << <<"user_id", "number", "1">>, <<"game_id", "number", "4">> >>
    [] method = "createReview" ->
         << <<"user_id", "number", "1">>, <<"game_id", "number", "4">>,
            <<"rating", "number", "5">>, <<"comment", "string", "fine">> >>
    [] OTHER -> <<>>

\* JSON.stringify of such an object, token by token
quote(text) == <<"\"", text, "\"">>

stringifyValue(field) == IF field[2] = "string" THEN quote(field[3]) ELSE <<field[3]>>

RECURSIVE stringifyFields(_)
stringifyFields(fields) ==
  IF fields = <<>> THEN <<>>
  ELSE quote(fields[1][1]) \o <<":">> \o stringifyValue(fields[1])
       \o (IF Len(fields) > 1 THEN <<",">> \o stringifyFields(Tail(fields)) ELSE <<>>)

JSON_stringify(fields) == <<"{">> \o stringifyFields(fields) \o <<"}">>

\* body: JSON.stringify(data)
requestBody_none(payload) == null

requestBody(payload) == <<JSON_stringify(payload)>>

\* the endpoint each method passes to request, with user 1, game 4, keyword rpg
endpointOf(method) ==
  CASE method = "getGames" -> <<"/games/">>
    [] method = "getGameById" -> <<"/games/">> \o digits(4)
    [] method = "searchGames" -> <<"/games/search/", "rpg">>
    [] method = "getGenres" -> <<"/genres/">>
    [] method = "getPlatforms" -> <<"/platforms/">>
    [] method = "getUsers" -> <<"/users/">>
    [] method = "getUserById" -> <<"/users/">> \o digits(1)
    [] method = "register" -> <<"/users/register">>
    [] method = "login" -> <<"/users/login">>
    [] method = "createUser" -> <<"/users">>
    [] method = "getUserLibrary" -> <<"/users/">> \o digits(1) \o <<"/library">>
    [] method = "updateUser" -> <<"/users/">> \o digits(1)
    [] method = "createOrder" -> <<"/orders">>
    [] method = "getAllOrders" -> <<"/orders/">>
    [] method = "getUserOrders" -> <<"/orders/">> \o digits(1)
    [] method = "deleteOrder" -> <<"/orders/">> \o digits(1) \o <<"/">> \o digits(4)
    [] method = "createReview" -> <<"/reviews">>
    [] method = "getGameReviews" -> <<"/reviews/game/">> \o digits(4)
    [] method = "getAllReviews" -> <<"/reviews/">>

\* the options each method passes to request; "" is no method, null no body
optionsOf(method) ==
  CASE method \in {"register", "login", "createUser", "createOrder", "createReview"} ->
         [method |-> "POST", body |-> requestBody(payloadOf(method))]
    [] method = "updateUser" ->
         [method |-> "PUT", body |-> requestBody(payloadOf(method))]
    [] method = "deleteOrder" -> [method |-> "DELETE", body |-> null]
    [] OTHER -> [method |-> "", body |-> null]

\* fetch(url, {...options, headers: {'Content-Type': 'application/json', ..}});
\* fetch sends GET when no method is given
fetchOf(method) ==
  LET options == optionsOf(method)
  IN  [url |-> <<"/api">> \o endpointOf(method),
       method |-> IF options.method = "" THEN "GET" ELSE options.method,
       contentType |-> "application/json",
       body |-> options.body]

\* what comes back: an HTTP response or a rejected fetch (network error)
Statuses == {200, 201, 404, 500}

\* response.ok
responseOk(status) == status >= 200 /\ status <= 299

\* response bodies: not JSON, {}, {"detail": ""}, {"detail": "Game not found"},
\* {"message": "ok"}
Bodies ==
  { [parsable |-> FALSE, object |-> <<>>],
    [parsable |-> TRUE, object |-> <<>>],
    [parsable |-> TRUE, object |-> << <<"detail", "">> >>],
    [parsable |-> TRUE, object |-> << <<"detail", "Game not found">> >>],
    [parsable |-> TRUE, object |-> << <<"message", "ok">> >>] }

Responses ==
  [kind : {"response"}, status : Statuses, body : Bodies]
    \cup {[kind |-> "network error", status |-> 0,
           body |-> [parsable |-> FALSE, object |-> <<>>]]}

\* object.key: <<>> when the property is absent, <<value>> otherwise
getField(object, key) ==
  LET hits == SelectSeq(object, LAMBDA f : f[1] = key)
  IN  IF hits = <<>> THEN null ELSE <<hits[1][2]>>

\* await response.json().catch(() => ({ detail: 'Unknown error' }))
jsonCatch_empty_object == <<>>

jsonCatch == << <<"detail", "Unknown error">> >>

\* error.detail || `HTTP error! status: ${response.status}`
errorMessage_always_generic(detail, status) == <<"HTTP error! status: ">> \o digits(status)

errorMessage(detail, status) ==
  IF detail # null /\ detail[1] # "" THEN <<detail[1]>>
  ELSE <<"HTTP error! status: ">> \o digits(status)

\* ApiService.request after fetch has settled: what the call returns or throws
request(response) ==
  IF response.kind = "network error"
  THEN [ok |-> FALSE, value |-> <<>>, message |-> <<"Failed to fetch">>]
  ELSE IF ~responseOk(response.status)
  THEN LET errorBody == IF response.body.parsable THEN response.body.object
                        ELSE jsonCatch
       IN  [ok |-> FALSE, value |-> <<>>,
            message |-> errorMessage(getField(errorBody, "detail"), response.status)]
  ELSE IF response.body.parsable
  THEN [ok |-> TRUE, value |-> response.body.object, message |-> <<>>]
  ELSE [ok |-> FALSE, value |-> <<>>, message |-> <<"Unexpected token">>]

\* a method of the service is called: request runs up to await fetch(..)
Api_call(method) ==
  /\ client.phase \in {"idle", "settled"}
  /\ client' = [noCall EXCEPT !.phase = "awaiting", !.method = method,
                              !.fetches = <<fetchOf(method)>>]

\* the fetch settles and request returns or throws; nothing is sent again
Api_settle(response) ==
  /\ client.phase = "awaiting"
  /\ client' = [client EXCEPT !.phase = "settled", !.response = response,
                              !.outcome = request(response)]

InitApi ==
  /\ catalogClosed
  /\ profile = Profile_useState
  /\ home = Home_useState("part_002")
  /\ backend = noBackend
  /\ client = noCall

NextApi ==
  \/ \E method \in ApiMethods :
       Api_call(method) /\ UNCHANGED <<catalogVars, profile, home, backend>>
  \/ \E response \in Responses :
       Api_settle(response) /\ UNCHANGED <<catalogVars, profile, home, backend>>

SpecApi == InitApi /\ [][NextApi]_vars

----------------------------------------------------------------------------
(* ApiService claims, checked under SpecApi                                *)

\* the call has ended on an HTTP response
settledOnResponse == client.phase = "settled" /\ client.response.kind = "response"

\* the detail property of a JSON body, when it has one
detailOf(body) == {f[2] : f \in {g \in Range(body.object) : g[1] = "detail"}}

\* C22: for every method, a non-2xx response whose JSON body has a non-empty
\* detail makes the call fail with exactly that detail as message, and a 2xx
\* response with a JSON body makes the call return the parsed body.
C22_ErrorNormalization ==
  settledOnResponse =>
    LET status == client.response.status
        body == client.response.body
    IN  /\ ( /\ ~(status \in 200..299)
             /\ body.parsable
             /\ \E d \in detailOf(body) : d # "" )
           => /\ ~client.outcome.ok
              /\ \E d \in detailOf(body) : client.outcome.message = <<d>>
        /\ (status \in 200..299 /\ body.parsable)
           => /\ client.outcome.ok
              /\ client.outcome.value = body.object

\* getGameById ends on 404 {"detail": "Game not found"}
C22_Witness ==
  /\ settledOnResponse
  /\ client.method = "getGameById"
  /\ client.response.status = 404
  /\ client.response.body.object = << <<"detail", "Game not found">> >>
  /\ ~client.outcome.ok
  /\ client.outcome.message = <<"Game not found">>

\* the decimal digits of the statuses used, written out
StatusDigits(status) ==
  CASE status = 200 -> <<"2", "0", "0">>
    [] status = 201 -> <<"2", "0", "1">>
    [] status = 404 -> <<"4", "0", "4">>
    [] status = 500 -> <<"5", "0", "0">>

\* the non-2xx response gives no message: no JSON body, or no detail in it
noMessageResponse ==
  /\ settledOnResponse
  /\ ~(client.response.status \in 200..299)
  /\ \/ ~client.response.body.parsable
     \/ detailOf(client.response.body) = {}

\* C23 as stated: on a non-2xx response without an obtainable message the
\* call fails with a generic message that carries the status code: some
\* fixed text followed by the digits of the status.
C23_GenericCarriesStatus ==
  noMessageResponse =>
    /\ ~client.outcome.ok
    /\ Len(client.outcome.message) > 1
    /\ SubSeq(client.outcome.message, 2, Len(client.outcome.message))
         = StatusDigits(client.response.status)

\* C23: on a non-2xx response whose body is not JSON the call fails with
\* the message "Unknown error", which carries no status code; on a non-2xx
\* response whose JSON body has no detail, or an empty one, it fails with
\* "HTTP error! status: <status>".
C23_GenericFallback ==
  (settledOnResponse /\ ~(client.response.status \in 200..299)) =>
    /\ ~client.outcome.ok
    /\ ~client.response.body.parsable
         => client.outcome.message = <<"Unknown error">>
    /\ ( /\ client.response.body.parsable
         /\ detailOf(client.response.body) \subseteq {""} )
         => client.outcome.message
              = <<"HTTP error! status: ">> \o StatusDigits(client.response.status)

\* a 500 with a body that is not JSON has ended in "Unknown error"
C23_Witness ==
  /\ settledOnResponse
  /\ client.response.status = 500
  /\ ~client.response.body.parsable
  /\ ~client.outcome.ok
  /\ client.outcome.message = <<"Unknown error">>

\* the methods that change data on the server
MutatingMethods ==
  {"register", "login", "createUser", "updateUser", "createOrder", "deleteOrder",
   "createReview"}

RECURSIVE parseFields(_)
parseFields(tokens) ==
  IF tokens = <<>> \/ tokens[1] = "}" THEN <<>>
  ELSE LET isString == tokens[5] = "\""
           field == IF isString THEN <<tokens[2], "string", tokens[6]>>
                    ELSE <<tokens[2], "number", tokens[5]>>
           rest == SubSeq(tokens, IF isString THEN 8 ELSE 6, Len(tokens))
       IN  <<field>> \o parseFields(IF rest[1] = "," THEN Tail(rest) ELSE rest)

\* the object a JSON text of the shape {"key": value, ..} stands for
JSON_parse(tokens) == parseFields(Tail(tokens))

\* the body of the one request of the call is the JSON text of the payload
sendsJsonPayload ==
  /\ client.fetches[1].body # null
  /\ client.fetches[1].body[1][1] = "{"
  /\ JSON_parse(client.fetches[1].body[1]) = payloadOf(client.method)

\* C24 as stated: every call issues exactly one HTTP request, and each of
\* the seven mutating calls sends its payload as a JSON request body.
C24_MutatingSendJson ==
  client.phase # "idle" =>
    /\ Len(client.fetches) = 1
    /\ client.method \in MutatingMethods => sendsJsonPayload

\* C24: every call issues exactly one HTTP request, whether it succeeds or
\* fails; register, login, createUser, updateUser, createOrder and
\* createReview send their payload as a JSON body; deleteOrder sends no
\* body: it is a DELETE whose URL names the user and the game; every other
\* method is a GET without a body.
C24_OneRequestJsonBodies ==
  client.phase # "idle" =>
    /\ Len(client.fetches) = 1
    /\ client.method \in MutatingMethods \ {"deleteOrder"}
         => /\ sendsJsonPayload
            /\ Len(payloadOf(client.method)) > 0
            /\ client.fetches[1].method \in {"POST", "PUT"}
    /\ client.method = "deleteOrder"
         => /\ client.fetches[1].body = null
            /\ client.fetches[1].method = "DELETE"
            /\ client.fetches[1].url = <<"/api", "/orders/", "1", "/", "4">>
    /\ client.method \notin MutatingMethods
         => /\ client.fetches[1].body = null
            /\ client.fetches[1].method = "GET"

\* createReview has failed on a 500 after its one request, whose body holds
\* a number and a string property
C24_Witness ==
  /\ client.phase = "settled"
  /\ client.method = "createReview"
  /\ ~client.outcome.ok
  /\ Len(client.fetches) = 1
  /\ client.fetches[1].body =
       << <<"{", "\"", "user_id", "\"", ":", "1", ",",
            "\"", "game_id", "\"", ":", "4", ",",
            "\"", "rating", "\"", ":", "5", ",",
            "\"", "comment", "\"", ":", "\"", "fine", "\"", "}">> >>

----------------------------------------------------------------------------
(* Catalog claims on loading, errors and races, checked under SpecCatalog  *)

\* C25: the Catalog's loading flag is true whenever one of its requests
\* (the genres/platforms load, a games fetch) is still unresolved.
C25_LoadingWhileInFlight ==
  (mounted /\ inflight # <<>>) => loading

\* no games fetch is unresolved and none has failed
fetchesResolved ==
  /\ mounted
  /\ error = null
  /\ \A i \in DOMAIN inflight : inflight[i].op # "fetchGames"

\* C27: once every games fetch has resolved, allGames holds what the server
\* answers to the request for the current searchQuery, whatever the order
\* in which the responses arrived.
C27_LatestSearchWins ==
  fetchesResolved =>
    allGames = serverGames(IF searchQuery # ""
                           THEN [api |-> "searchGames", arg |-> searchQuery]
                           ELSE [api |-> "getGames", arg |-> ""])

----------------------------------------------------------------------------
(* Home claims on retry and on the carousel index *)

\* C26: after a failed load and a retry, a load that succeeds clears the error,
\* so the page leaves the error view: whenever the latest loadData has
\* succeeded, error is null.
C26_RetryRecovers ==
  (home.mounted /\ home.loadOutcome = "ok") => home.error = null

\* C28: whenever the featured carousel is rendered, currentSlide is an index
\* into featuredGames: 0 <= currentSlide < featuredGames.length.
C28_SlideInRange ==
  carouselRendered(home) =>
    /\ 0 <= home.currentSlide
    /\ home.currentSlide < Len(home.featuredGames)

============================================================================
